---- MODULE Spec2Model ----
(***************************************************************************)
(* Request-body builders of package gotbot (src/constant.go):              *)
(* GetJSONBody and GetMultipartBody, with the helper coalesce.             *)
(*                                                                         *)
(* Go strings that the code takes apart (struct tags, field names,         *)
(* attachment names, paths) are tuples of one-character strings; rendered  *)
(* values (fmt.Sprintf, json.Marshal output, file contents) are TLA+       *)
(* strings built with \o.                                                  *)
(***************************************************************************)
EXTENDS Integers, Sequences, FiniteSets, TLC

\* ------------------------------------------------------------------ bounds
\* Longest record (number of struct fields) a call is given.
MaxFields == 2
\* Longest attachment list a call is given.
MaxFiles == 2
\* Number of callers that may run a builder at the same time.
NumCalls == 2

Calls == 1..NumCalls

\* ------------------------------------------------------- string helpers
RECURSIVE Str(_)
\* The TLA+ string spelled by a tuple of characters.
Str(t) == IF t = <<>> THEN "" ELSE Head(t) \o Str(Tail(t))

\* Index of the first occurrence of character ch in s, 0 if there is none.
IndexOf(s, ch) ==
    IF \E k \in 1..Len(s) : s[k] = ch
    THEN CHOOSE k \in 1..Len(s) : s[k] = ch /\ \A m \in 1..(k - 1) : s[m] # ch
    ELSE 0

RECURSIVE Split(_, _)
\* strings.Split(s, sep) for a one-character separator.
Split(s, sep) ==
    LET k == IndexOf(s, sep) IN
    IF k = 0 THEN <<s>>
    ELSE <<SubSeq(s, 1, k - 1)>> \o Split(SubSeq(s, k + 1, Len(s)), sep)

\* strings.Contains(s, sub).
Contains(s, sub) ==
    \E k \in 0..(Len(s) - Len(sub)) : SubSeq(s, k + 1, k + Len(sub)) = sub

RECURSIVE TrimSlashes(_)
\* Strip the trailing path separators, as filepath.Base does first.
TrimSlashes(p) ==
    IF p # <<>> /\ p[Len(p)] = "/" THEN TrimSlashes(SubSeq(p, 1, Len(p) - 1)) ELSE p

\* The path as it stands: what a build that forgot filepath.Base would send.
BaseWholePath(path) == path

\* filepath.Base(path): the last element of the path.
Base(path) ==
    IF path = <<>> THEN <<".">>
    ELSE LET t == TrimSlashes(path)
             last == IF \E k \in 1..Len(t) : t[k] = "/"
                     THEN CHOOSE k \in 1..Len(t) :
                              t[k] = "/" /\ \A m \in (k + 1)..Len(t) : t[m] # "/"
                     ELSE 0
         IN IF t = <<>> THEN <<"/">> ELSE SubSeq(t, last + 1, Len(t))

RECURSIVE coalesce(_)
\* coalesce(value ...string): the first argument that is not the zero value,
\* the last argument when all are zero, the zero value for no argument.
coalesce(value) ==
    IF Len(value) = 0 THEN <<>>
    ELSE IF Len(value) = 1 \/ Head(value) # <<>> THEN Head(value)
    ELSE coalesce(Tail(value))

\* ------------------------------------------------------------- Go values
\* A Go value as reflection sees it: its kind and, by kind, its integer n, its
\* string s, whether it is nil, and for a slice its elements, for a map its
\* keys (sorted) and their values, for a struct its field identifiers, their
\* json tags (the result of Tag.Get("json")) and their values, for a non-nil
\* pointer the one value it points to. kind "invalid" is the nil interface.
Val(kind, n, s, isnil, keys, tags, elems) ==
    [kind |-> kind, n |-> n, s |-> s, isnil |-> isnil,
     keys |-> keys, tags |-> tags, elems |-> elems]

IntV(n) == Val("int", n, "", FALSE, <<>>, <<>>, <<>>)
StrV(s) == Val("string", 0, s, FALSE, <<>>, <<>>, <<>>)
FuncV == Val("func", 0, "", FALSE, <<>>, <<>>, <<>>)
NilV == Val("invalid", 0, "", TRUE, <<>>, <<>>, <<>>)
NilSliceV == Val("slice", 0, "", TRUE, <<>>, <<>>, <<>>)
SliceV(elems) == Val("slice", 0, "", FALSE, <<>>, <<>>, elems)
MapV(keys, elems) == Val("map", 0, "", FALSE, keys, <<>>, elems)
StructV(keys, tags, elems) == Val("struct", 0, "", FALSE, keys, tags, elems)
PtrV(v) == Val("ptr", 0, "", FALSE, <<>>, <<>>, <<v>>)

Upper == {"A", "B", "C", "D", "E", "F", "G", "H", "I", "J", "K", "L", "M",
          "N", "O", "P", "Q", "R", "S", "T", "U", "V", "W", "X", "Y", "Z"}

\* A struct field is exported when its identifier starts with an upper-case letter.
Exported(name) == name # <<>> /\ Head(name) \in Upper

RECURSIVE IsZero(_)
\* reflect.Value.IsZero: 0, "", a nil slice, map, pointer or func, and a struct
\* whose fields are all zero. An empty slice that is not nil is not zero.
IsZero(v) ==
    CASE v.kind = "int" -> v.n = 0
      [] v.kind = "string" -> v.s = ""
      [] v.kind = "struct" -> \A k \in 1..Len(v.elems) : IsZero(v.elems[k])
      [] OTHER -> v.isnil

RECURSIVE Join(_, _)
\* The strings of parts, separated by sep.
Join(parts, sep) ==
    IF parts = <<>> THEN ""
    ELSE IF Len(parts) = 1 THEN Head(parts)
    ELSE Head(parts) \o sep \o Join(Tail(parts), sep)

RECURSIVE Sprint(_)
\* fmt.Sprintf("%v", v) at the top level. A func prints as its code address,
\* which no claim reads; it is rendered as the fixed text "0xfunc".
Sprint(v) ==
    CASE v.kind = "int" -> ToString(v.n)
      [] v.kind = "string" -> v.s
      [] v.kind = "invalid" -> "<nil>"
      [] v.kind = "func" -> IF v.isnil THEN "<nil>" ELSE "0xfunc"
      [] v.kind = "ptr" -> IF v.isnil THEN "<nil>" ELSE "&" \o Sprint(v.elems[1])
      [] v.kind = "slice" ->
           "[" \o Join([k \in 1..Len(v.elems) |-> Sprint(v.elems[k])], " ") \o "]"
      [] v.kind = "map" ->
           "map[" \o Join([k \in 1..Len(v.elems) |->
                              Str(v.keys[k]) \o ":" \o Sprint(v.elems[k])], " ") \o "]"
      [] v.kind = "struct" ->
           "{" \o Join([k \in 1..Len(v.elems) |-> Sprint(v.elems[k])], " ") \o "}"

\* encoding/json's isEmptyValue, which decides its own omitempty.
IsEmptyValue(v) ==
    CASE v.kind = "int" -> v.n = 0
      [] v.kind = "string" -> v.s = ""
      [] v.kind \in {"slice", "map"} -> Len(v.elems) = 0
      [] v.kind = "struct" -> FALSE
      [] OTHER -> v.isnil

\* Whether json.Marshal writes field k of struct v: exported, not tagged "-",
\* and not an empty value under an omitempty option.
JSONKept(v, k) ==
    LET opts == Split(v.tags[k], ",") IN
    /\ Exported(v.keys[k])
    /\ v.tags[k] # <<"-">>
    /\ ~((\E o \in 2..Len(opts) : opts[o] = <<"o", "m", "i", "t", "e", "m", "p", "t", "y">>)
         /\ IsEmptyValue(v.elems[k]))

\* The object key json.Marshal gives field k of struct v.
JSONKey(v, k) == coalesce(<<Split(v.tags[k], ",")[1], v.keys[k]>>)

JSONOk(js) == [err |-> FALSE, js |-> js]
JSONErr == [err |-> TRUE, js |-> ""]

RECURSIVE Marshal(_)
\* json.Marshal(v): the encoding, or an error for a value that holds a func
\* (json: unsupported type). The strings of the model need no escaping.
Marshal(v) ==
    CASE v.kind = "int" -> JSONOk(ToString(v.n))
      [] v.kind = "string" -> JSONOk("\"" \o v.s \o "\"")
      [] v.kind = "invalid" -> JSONOk("null")
      [] v.kind = "func" -> JSONErr
      [] v.kind = "ptr" -> IF v.isnil THEN JSONOk("null") ELSE Marshal(v.elems[1])
      [] v.kind = "slice" ->
           LET rs == [k \in 1..Len(v.elems) |-> Marshal(v.elems[k])] IN
           IF v.isnil THEN JSONOk("null")
           ELSE IF \E k \in 1..Len(rs) : rs[k].err THEN JSONErr
           ELSE JSONOk("[" \o Join([k \in 1..Len(rs) |-> rs[k].js], ",") \o "]")
      [] v.kind = "map" ->
           LET rs == [k \in 1..Len(v.elems) |-> Marshal(v.elems[k])] IN
           IF v.isnil THEN JSONOk("null")
           ELSE IF \E k \in 1..Len(rs) : rs[k].err THEN JSONErr
           ELSE JSONOk("{" \o Join([k \in 1..Len(rs) |->
                           "\"" \o Str(v.keys[k]) \o "\":" \o rs[k].js], ",") \o "}")
      [] v.kind = "struct" ->
           LET kept == SelectSeq([k \in 1..Len(v.elems) |-> k],
                                 LAMBDA k : JSONKept(v, k))
               rs == [m \in 1..Len(kept) |-> Marshal(v.elems[kept[m]])]
           IN IF \E m \in 1..Len(rs) : rs[m].err THEN JSONErr
              ELSE JSONOk("{" \o Join([m \in 1..Len(rs) |->
                           "\"" \o Str(JSONKey(v, kept[m])) \o "\":" \o rs[m].js], ",")
                          \o "}")

\* ------------------------------------------------- records and attachments
\* The marker the field pass looks for in a json tag.
OmitMarker == <<",", "o", "m", "i", "t", "e", "m", "p", "t", "y">>

Field(name, tag, val) == [name |-> name, tag |-> tag, val |-> val]

\* The struct fields records are built from: identifier, json tag, value.
FieldDecls ==
    { Field(<<"C", "h", "a", "t">>, <<"i", "d">>, StrV("123")),
      Field(<<"C", "a", "p">>, <<"c", "a", "p">> \o OmitMarker, StrV("")),
      Field(<<"P", "h", "o", "t", "o">>, OmitMarker, StrV("x")),
      Field(<<"T", "a", "g", "s">>, <<>>, SliceV(<<IntV(1), IntV(2)>>)),
      Field(<<"O", "p", "t", "s">>, <<"o", "p", "t", "s">> \o OmitMarker, SliceV(<<>>)),
      Field(<<"H", "o", "o", "k", "s">>, <<"h", "o", "o", "k", "s">>, SliceV(<<FuncV>>)),
      Field(<<"s", "e", "q">>, <<>>, IntV(7)),
      Field(<<"M", "e", "t", "a">>, <<"i", "d">>,
            StructV(<<<<"X">>>>, <<<<>>>>, <<IntV(1)>>)),
      Field(<<"K", "v">>, <<"k", "v">>, MapV(<<<<"a">>>>, <<IntV(0)>>)) }

\* The struct value with the given fields, in declaration order.
Record(fs) ==
    StructV([k \in 1..Len(fs) |-> fs[k].name], [k \in 1..Len(fs) |-> fs[k].tag],
            [k \in 1..Len(fs) |-> fs[k].val])

\* Field lists of at most n fields; a struct declares each identifier once.
FieldLists(decls, n) ==
    UNION { { fs \in [1..m -> decls] :
                \A a, b \in 1..m : a # b => fs[a].name # fs[b].name } : m \in 0..n }

\* entity.FileEnvelop: the form name of the file and where it is on disk.
FileEnvelop(name, path) == [Name |-> name, Path |-> path]

PathJpg == <<"/", "t", "/", "a", ".", "j", "p", "g">>
PathDir == <<"/", "t", "/">>
PathTxt == <<"b", ".", "t">>
PathNone == <<"/", "n", "o">>

\* The file system the calls read: PathJpg and PathTxt are regular files,
\* PathDir is a directory (it opens, and reading it fails), anything else does
\* not exist.
Stat(path) ==
    CASE path = PathJpg -> [exists |-> TRUE, isdir |-> FALSE, data |-> "JPG"]
      [] path = PathTxt -> [exists |-> TRUE, isdir |-> FALSE, data |-> "TXT"]
      [] path = PathDir -> [exists |-> TRUE, isdir |-> TRUE, data |-> ""]
      [] OTHER -> [exists |-> FALSE, isdir |-> FALSE, data |-> ""]

Envelops ==
    { FileEnvelop(<<"P", "h", "o", "t", "o">>, PathJpg),
      FileEnvelop(<<"d", "o", "c">>, PathTxt),
      FileEnvelop(<<"i", "d">>, PathNone),
      FileEnvelop(<<"c", "a", "p">>, PathDir) }

FileLists(envs, n) == UNION { [1..m -> envs] : m \in 0..n }

\* A call: which builder, the value given as msg (value for GetJSONBody) and
\* the variadic files.
Call(fn, msg, files) == [fn |-> fn, msg |-> msg, files |-> files]

ChatOnly == Record(<<Field(<<"C", "h", "a", "t">>, <<"i", "d">>, StrV("123"))>>)

\* What a caller may pass: every record with every attachment list, a msg
\* that is no struct value (nil, a pointer to a record, an int), and values
\* for GetJSONBody, one of which json cannot encode.
Inputs ==
    { Call("multipart", Record(fs), files) :
        fs \in FieldLists(FieldDecls, MaxFields), files \in FileLists(Envelops, MaxFiles) }
    \cup { Call("multipart", m, <<>>) : m \in {NilV, PtrV(ChatOnly), IntV(7)} }
    \cup { Call("json", v, <<>>) :
             v \in {NilV, ChatOnly, SliceV(<<FuncV>>),
                    Record(<<Field(<<"C", "a", "p">>, <<"c", "a", "p">> \o OmitMarker,
                                   StrV("")),
                             Field(<<"s", "e", "q">>, <<>>, IntV(7))>>)} }

\* The calls of the concurrent runs: both builders, a build that fails while
\* copying, one that succeeds with a field and a file, one that panics, and a
\* JSON failure.
ConcInputs ==
    { Call("multipart", NilV, <<>>) } \cup
    { Call("multipart", ChatOnly, <<FileEnvelop(<<"P", "h", "o", "t", "o">>, PathJpg)>>),
      Call("multipart", ChatOnly, <<FileEnvelop(<<"c", "a", "p">>, PathDir)>>),
      Call("json", ChatOnly, <<>>),
      Call("json", SliceV(<<FuncV>>), <<>>) }

\* The boundary multipart.NewWriter draws at random.
Boundaries == {"b1", "b2"}

\* ------------------------------------------------------- the field pass
\* The tag's name alone, with no fallback to the identifier.
WireNameTagOnly(msg, k) == Split(msg.tags[k], ",")[1]

\* fieldName of field k (lines 47-49): the json tag up to its first comma,
\* or the identifier when that is empty.
WireName(msg, k) == coalesce(<<Split(msg.tags[k], ",")[1], msg.keys[k]>>)

\* The attachment list never consulted.
NoOverride(files, fieldName) == FALSE

\* Lines 52-57: some attachment carries the field's name.
FileOverrides(files, fieldName) == \E j \in 1..Len(files) : files[j].Name = fieldName

\* The marker alone deciding, whatever the value.
OmitMarked(msg, k) == Contains(msg.tags[k], OmitMarker)

\* Lines 59-64: the tag holds ",omitempty" and the value is zero.
OmitEmpty(msg, k) == Contains(msg.tags[k], OmitMarker) /\ IsZero(msg.elems[k])

\* skip, as it stands at line 66.
Skip(msg, files, k) == FileOverrides(files, WireName(msg, k)) \/ OmitEmpty(msg, k)

\* The kinds of the first case of the switch at line 72.
Composite(v) == v.kind \in {"struct", "map", "array", "slice"}

\* Every value rendered with %v, composite or not.
SprintAlways(v) == JSONOk(Sprint(v))

\* Lines 72-82: the string written for a value, or the json error.
EncodeValue(v) == IF Composite(v) THEN Marshal(v) ELSE JSONOk(Sprint(v))

\* reflect.Value.Interface panics on a field obtained from an unexported
\* struct field (lines 74 and 81).
InterfacePanics(msg, k) == ~Exported(msg.keys[k])

\* ------------------------------------------------------------------ state
VARIABLES
    input,     \* input[c]: the arguments of call c
    pc,        \* pc[c]: where call c stands
    i,         \* i[c]: the loop counter of the running loop
    body,      \* body[c]: address of the call's bytes.Buffer, 0 before it exists
    writer,    \* writer[c]: the call's multipart.Writer
    buf,       \* buf[a]: the parts written to the buffer at address a
    handles,   \* the open file handles, <<call, attachment index>>
    trace,     \* trace[c]: what call c has done so far, in order
    ret        \* ret[c]: the three results of call c once it has returned

vars == <<input, pc, i, body, writer, buf, handles, trace, ret>>

NoErr == [op |-> "", path |-> <<>>]
Err(op, path) == [op |-> op, path |-> path]

Part(kind, name, filename, data) ==
    [kind |-> kind, name |-> name, filename |-> filename, data |-> data]

Event(ev, idx) == [ev |-> ev, idx |-> idx]

NoWriter == [boundary |-> "", w |-> 0, closed |-> 0]
NoRet == [stream |-> 0, contentType |-> "", err |-> NoErr]

\* One buffer for every call: what a package-level buffer would be.
SharedBuffer(c) == 1

\* The address of the buffer a call allocates (&bytes.Buffer{}, line 43, and
\* bytes.NewBuffer, line 37): a fresh one for each call.
NewBuffer(c) == c

\* bytes.Buffer.Write appends and never returns an error, so the writes of
\* WriteField, CreateFormFile and Close over it cannot fail; the branches that
\* handle their errors are kept in the actions as the code has them.
BufferWrite(content, part) == [err |-> FALSE, out |-> Append(content, part)]

\* writer.FormDataContentType() (line 113).
FormDataContentType(w) == "multipart/form-data; boundary=" \o w.boundary

\* The error dropped on the way out.
ReturnSwallowed(e) == [stream |-> 0, contentType |-> "", err |-> NoErr]

\* The zero stream, the zero BodyOptions and the error (lines 76, 87, 109).
ReturnErr(e) == [stream |-> 0, contentType |-> "", err |-> e]

Idle == Call("none", NilV, <<>>)

Start(ins, active) ==
    /\ \E f \in [active -> ins] :
         input = [c \in Calls |-> IF c \in active THEN f[c] ELSE Idle]
    /\ pc = [c \in Calls |-> IF c \in active THEN "call" ELSE "idle"]
    /\ i = [c \in Calls |-> 0]
    /\ body = [c \in Calls |-> 0]
    /\ writer = [c \in Calls |-> NoWriter]
    /\ buf = [a \in Calls |-> <<>>]
    /\ handles = {}
    /\ trace = [c \in Calls |-> <<>>]
    /\ ret = [c \in Calls |-> NoRet]

\* One caller, any input.
Init == Start(Inputs, {1})

\* Every caller running at once.
InitConc == Start(ConcInputs, Calls)

Return(c, r) ==
    /\ ret' = [ret EXCEPT ![c] = r]
    /\ pc' = [pc EXCEPT ![c] = "done"]

\* ---------------------------------------------------------------- actions
\* GetJSONBody (lines 35-38): the buffer over the marshalled bytes, the JSON
\* content type and Marshal's error, all three whatever the error is.
GetJSONBody(c) ==
    /\ pc[c] = "call" /\ input[c].fn = "json"
    /\ LET r == Marshal(input[c].msg)
           a == NewBuffer(c)
       IN /\ body' = [body EXCEPT ![c] = a]
          /\ buf' = [buf EXCEPT ![a] =
                       IF r.err THEN <<>> ELSE <<Part("json", <<>>, <<>>, r.js)>>]
          /\ Return(c, [stream |-> a, contentType |-> "application/json",
                        err |-> IF r.err THEN Err("json", <<>>) ELSE NoErr])
    /\ UNCHANGED <<input, i, writer, handles, trace>>

\* GetMultipartBody, lines 42-44: the buffer and the writer over it.
Begin(c) ==
    /\ pc[c] = "call" /\ input[c].fn = "multipart"
    /\ \E b \in Boundaries :
         LET a == NewBuffer(c) IN
         /\ body' = [body EXCEPT ![c] = a]
         /\ buf' = [buf EXCEPT ![a] = <<>>]
         /\ writer' = [writer EXCEPT ![c] = [boundary |-> b, w |-> a, closed |-> 0]]
    /\ pc' = [pc EXCEPT ![c] = "fields"]
    /\ i' = [i EXCEPT ![c] = 0]
    /\ UNCHANGED <<input, handles, trace, ret>>

\* Line 46 on a msg that is no struct: msgValue.NumField() panics. Nothing in
\* the function recovers, so the panic leaves the call (pc "panic") and is the
\* caller's to handle; the call returns nothing.
NumFieldPanic(c) ==
    /\ pc[c] = "fields" /\ input[c].msg.kind # "struct"
    /\ pc' = [pc EXCEPT ![c] = "panic"]
    /\ UNCHANGED <<input, i, body, writer, buf, handles, trace, ret>>

\* One turn of the loop of lines 46-89, on field i.
FieldPass(c) ==
    LET msg == input[c].msg
        k == i[c] + 1
    IN
    /\ pc[c] = "fields" /\ msg.kind = "struct" /\ i[c] < Len(msg.elems)
    /\ IF Skip(msg, input[c].files, k)
       THEN /\ i' = [i EXCEPT ![c] = i[c] + 1]
            /\ UNCHANGED <<pc, buf, trace, ret>>
       ELSE IF InterfacePanics(msg, k)
       THEN /\ pc' = [pc EXCEPT ![c] = "panic"]
            /\ UNCHANGED <<i, buf, trace, ret>>
       ELSE LET e == EncodeValue(msg.elems[k])
                wr == BufferWrite(buf[writer[c].w],
                                  Part("field", WireName(msg, k), <<>>, e.js))
            IN IF e.err
               THEN /\ Return(c, ReturnErr(Err("json", <<>>)))
                    /\ UNCHANGED <<i, buf, trace>>
               ELSE IF wr.err
               THEN /\ Return(c, ReturnErr(Err("write", <<>>)))
                    /\ UNCHANGED <<i, buf, trace>>
               ELSE /\ buf' = [buf EXCEPT ![writer[c].w] = wr.out]
                    /\ trace' = [trace EXCEPT ![c] = Append(@, Event("field", k))]
                    /\ i' = [i EXCEPT ![c] = i[c] + 1]
                    /\ UNCHANGED <<pc, ret>>
    /\ UNCHANGED <<input, body, writer, handles>>

\* The field loop ends (line 46) and the file loop starts (line 91).
FieldPassEnd(c) ==
    /\ pc[c] = "fields" /\ input[c].msg.kind = "struct"
    /\ i[c] >= Len(input[c].msg.elems)
    /\ pc' = [pc EXCEPT ![c] = "files"]
    /\ i' = [i EXCEPT ![c] = 0]
    /\ UNCHANGED <<input, body, writer, buf, handles, trace, ret>>

\* Lines 93-96 and 108-110: open attachment i, or return the error.
OpenFile(c) ==
    LET k == i[c] + 1
        path == input[c].files[k].Path
    IN
    /\ pc[c] = "files" /\ i[c] < Len(input[c].files)
    /\ trace' = [trace EXCEPT ![c] = Append(@, Event("open", k))]
    /\ IF ~Stat(path).exists
       THEN /\ Return(c, ReturnErr(Err("open", path)))
            /\ UNCHANGED handles
       ELSE /\ handles' = handles \cup {<<c, k>>}
            /\ pc' = [pc EXCEPT ![c] = "opened"]
            /\ UNCHANGED ret
    /\ UNCHANGED <<input, i, body, writer, buf>>

\* The deferred close skipped when the closure returns an error.
CloseOnSuccessOnly(hs, h, failed) == IF failed THEN hs ELSE hs \ {h}

\* Lines 97-99: the deferred file.Close() runs however the closure returns.
DeferredClose(hs, h, failed) == hs \ {h}

\* Lines 101-104: the header of the file part.
CreateFormFile(c) ==
    LET k == i[c] + 1
        env == input[c].files[k]
        wr == BufferWrite(buf[writer[c].w], Part("file", env.Name, Base(env.Path), ""))
    IN
    /\ pc[c] = "opened"
    /\ IF wr.err
       THEN /\ handles' = DeferredClose(handles, <<c, k>>, TRUE)
            /\ Return(c, ReturnErr(Err("write", <<>>)))
            /\ UNCHANGED <<buf, trace>>
       ELSE /\ buf' = [buf EXCEPT ![writer[c].w] = wr.out]
            /\ trace' = [trace EXCEPT ![c] = Append(@, Event("filepart", k))]
            /\ pc' = [pc EXCEPT ![c] = "created"]
            /\ UNCHANGED <<handles, ret>>
    /\ UNCHANGED <<input, i, body, writer>>

\* Lines 105-110: copy the file into its part, close the file, and go on to
\* the next attachment or return the error.
CopyFile(c) ==
    LET k == i[c] + 1
        st == Stat(input[c].files[k].Path)
        a == writer[c].w
        n == Len(buf[a])
    IN
    /\ pc[c] = "created"
    /\ handles' = DeferredClose(handles, <<c, k>>, st.isdir)
    /\ IF st.isdir
       THEN /\ Return(c, ReturnErr(Err("read", input[c].files[k].Path)))
            /\ UNCHANGED <<i, buf, trace>>
       ELSE /\ buf' = [buf EXCEPT ![a] =
                         IF n = 0 THEN @ ELSE [@ EXCEPT ![n].data = @ \o st.data]]
            /\ trace' = [trace EXCEPT ![c] = Append(@, Event("copy", k))]
            /\ i' = [i EXCEPT ![c] = i[c] + 1]
            /\ pc' = [pc EXCEPT ![c] = "files"]
            /\ UNCHANGED ret
    /\ UNCHANGED <<input, body, writer>>

\* Line 113: the file loop has ended; close the writer and return the buffer,
\* the content type and Close's error.
Finalize(c) ==
    LET a == writer[c].w
        wr == BufferWrite(buf[a], Part("end", <<>>, <<>>, ""))
    IN
    /\ pc[c] = "files" /\ i[c] >= Len(input[c].files)
    /\ writer' = [writer EXCEPT ![c].closed = @ + 1]
    /\ trace' = [trace EXCEPT ![c] = Append(@, Event("finalize", 0))]
    /\ buf' = [buf EXCEPT ![a] = IF wr.err THEN @ ELSE wr.out]
    /\ Return(c, [stream |-> body[c], contentType |-> FormDataContentType(writer[c]),
                  err |-> IF wr.err THEN Err("write", <<>>) ELSE NoErr])
    /\ UNCHANGED <<input, i, body, handles>>

Next ==
    \E c \in Calls :
        \/ GetJSONBody(c)
        \/ Begin(c)
        \/ NumFieldPanic(c)
        \/ FieldPass(c)
        \/ FieldPassEnd(c)
        \/ OpenFile(c)
        \/ CreateFormFile(c)
        \/ CopyFile(c)
        \/ Finalize(c)

Spec == Init /\ [][Next]_vars

SpecConc == InitConc /\ [][Next]_vars

\* ------------------------------------------------- a call run on its own
RECURSIVE AloneFields(_, _, _, _)
\* The field loop (lines 46-89) from field k on, run without interruption on
\* a private list of parts: how it ends and what it has written.
AloneFields(msg, files, k, parts) ==
    IF k > Len(msg.elems) THEN [st |-> "ok", err |-> NoErr, parts |-> parts]
    ELSE IF Skip(msg, files, k) THEN AloneFields(msg, files, k + 1, parts)
    ELSE IF InterfacePanics(msg, k) THEN [st |-> "panic", err |-> NoErr, parts |-> parts]
    ELSE IF EncodeValue(msg.elems[k]).err
    THEN [st |-> "err", err |-> Err("json", <<>>), parts |-> parts]
    ELSE AloneFields(msg, files, k + 1,
             Append(parts, Part("field", WireName(msg, k), <<>>,
                                EncodeValue(msg.elems[k]).js)))

RECURSIVE AloneFiles(_, _, _)
\* The file loop and the final return (lines 91-113) from attachment k on.
AloneFiles(files, k, parts) ==
    IF k > Len(files)
    THEN [st |-> "ok", err |-> NoErr, parts |-> Append(parts, Part("end", <<>>, <<>>, ""))]
    ELSE IF ~Stat(files[k].Path).exists
    THEN [st |-> "err", err |-> Err("open", files[k].Path), parts |-> parts]
    ELSE IF Stat(files[k].Path).isdir
    THEN [st |-> "err", err |-> Err("read", files[k].Path), parts |-> parts]
    ELSE AloneFiles(files, k + 1,
             Append(parts, Part("file", files[k].Name, Base(files[k].Path),
                                Stat(files[k].Path).data)))

\* What the call `in` returns when nothing else runs, its writer having drawn
\* boundary b: whether a stream is returned, its bytes, the content type and
\* the error.
RunAlone(in, b) ==
    IF in.fn = "json"
    THEN LET r == Marshal(in.msg) IN
         [st |-> "ok", hasStream |-> TRUE,
          content |-> IF r.err THEN <<>> ELSE <<Part("json", <<>>, <<>>, r.js)>>,
          contentType |-> "application/json",
          err |-> IF r.err THEN Err("json", <<>>) ELSE NoErr]
    ELSE IF in.msg.kind # "struct"
    THEN [st |-> "panic", hasStream |-> FALSE, content |-> <<>>, contentType |-> "",
          err |-> NoErr]
    ELSE LET f == AloneFields(in.msg, in.files, 1, <<>>)
             g == AloneFiles(in.files, 1, f.parts)
         IN IF f.st # "ok"
            THEN [st |-> f.st, hasStream |-> FALSE, content |-> <<>>,
                  contentType |-> "", err |-> f.err]
            ELSE IF g.st # "ok"
            THEN [st |-> g.st, hasStream |-> FALSE, content |-> <<>>,
                  contentType |-> "", err |-> g.err]
            ELSE [st |-> "ok", hasStream |-> TRUE, content |-> g.parts,
                  contentType |-> "multipart/form-data; boundary=" \o b, err |-> NoErr]

\* ----------------------------------------------------- reading the state
Multipart(c) == input[c].fn = "multipart"
Returned(c) == pc[c] = "done"
Succeeded(c) == pc[c] = "done" /\ ret[c].err = NoErr
Failed(c) == pc[c] = "done" /\ ret[c].err # NoErr

\* The bytes behind the stream a call returned.
Output(c) == buf[ret[c].stream]

\* The parts of one kind in a buffer, in order.
PartsOf(content, kind) == SelectSeq(content, LAMBDA p : p.kind = kind)

\* The events of one kind in a call's history, in order.
EventsOf(c, ev) == SelectSeq(trace[c], LAMBDA e : e.ev = ev)

\* The tag's part before its first comma.
TagName(tag) ==
    IF \E k \in 1..Len(tag) : tag[k] = ","
    THEN SubSeq(tag, 1, (CHOOSE k \in 1..Len(tag) :
                            tag[k] = "," /\ \A m \in 1..(k - 1) : tag[m] # ",") - 1)
    ELSE tag

\* The wire name as the specification words it.
StatedWireName(msg, k) ==
    IF TagName(msg.tags[k]) # <<>> THEN TagName(msg.tags[k]) ELSE msg.keys[k]

\* Some attachment is named like field k.
Overridden(c, k) ==
    \E j \in 1..Len(input[c].files) :
        input[c].files[j].Name = StatedWireName(input[c].msg, k)

\* Field k carries the omit-if-empty marker and holds the zero value.
MarkedAndZero(c, k) ==
    /\ Contains(input[c].msg.tags[k], OmitMarker)
    /\ IsZero(input[c].msg.elems[k])

FieldsOf(c) == IF input[c].msg.kind = "struct" THEN 1..Len(input[c].msg.elems) ELSE {}

\* name is the last element of path: no separator in it, and the path, its
\* trailing separators dropped, ends with it right after a separator.
IsBaseOf(name, path) ==
    LET t == TrimSlashes(path) IN
    /\ \A k \in 1..Len(name) : name[k] # "/"
    /\ Len(name) <= Len(t)
    /\ SubSeq(t, Len(t) - Len(name) + 1, Len(t)) = name
    /\ (Len(name) < Len(t) => t[Len(t) - Len(name)] = "/")

\* ------------------------------------------------------------------ claims
HandlesOf(c) == {h \in handles : h[1] = c}

Written(c) == IF body[c] = 0 THEN <<>> ELSE buf[body[c]]

\* C1: a field whose wire name is the Name of some attachment is never
\* written as a form field, whatever its value and marker, and no form field
\* of the output carries that name.
C1_AttachmentSuppressesField ==
    \A c \in Calls : Multipart(c) =>
        \A k \in FieldsOf(c) : Overridden(c, k) =>
            /\ \A m \in 1..Len(trace[c]) : trace[c][m] # Event("field", k)
            /\ \A m \in 1..Len(Written(c)) :
                 Written(c)[m].kind = "field" =>
                     Written(c)[m].name # StatedWireName(input[c].msg, k)

\* A successful build in which an attachment replaced a field that holds a
\* value, the name being in the output as a file part.
C1_Witness ==
    \E c \in Calls : Multipart(c) /\ Succeeded(c) /\
        \E k \in FieldsOf(c) :
            /\ Overridden(c, k)
            /\ ~IsZero(input[c].msg.elems[k])
            /\ \E m \in 1..Len(Output(c)) :
                 /\ Output(c)[m].kind = "file"
                 /\ Output(c)[m].name = StatedWireName(input[c].msg, k)

\* C2: whenever a builder returns an error, the stream it returns is nil and
\* the content type is empty.
C2_ErrorMeansNilStream ==
    \A c \in Calls : Failed(c) => ret[c].stream = 0 /\ ret[c].contentType = ""

\* C3: no call ever panics.
C3_NeverPanics == \A c \in Calls : pc[c] # "panic"

\* C4: with no attachment and no marked zero field, a successful build
\* writes one form field for each record field, in declaration order, named
\* by the tag's part before the first comma, or by the identifier when that
\* part is empty, and nothing else but the closing boundary.
C4_OneFieldPerRecordField ==
    \A c \in Calls :
        (/\ Multipart(c) /\ Succeeded(c)
         /\ input[c].files = <<>>
         /\ \A k \in FieldsOf(c) : ~MarkedAndZero(c, k))
        => LET n == Len(input[c].msg.elems) IN
           /\ Len(Output(c)) = n + 1
           /\ \A k \in 1..n :
                /\ Output(c)[k].kind = "field"
                /\ Output(c)[k].name = StatedWireName(input[c].msg, k)
           /\ Output(c)[n + 1].kind = "end"
           /\ EventsOf(c, "field") = [k \in 1..n |-> Event("field", k)]

\* Such a build of a record with a tagged field and a field named by its
\* identifier.
C4_Witness ==
    \E c \in Calls :
        /\ Multipart(c) /\ Succeeded(c) /\ input[c].files = <<>>
        /\ Len(input[c].msg.elems) = MaxFields
        /\ \A k \in FieldsOf(c) : ~MarkedAndZero(c, k)
        /\ \E k \in FieldsOf(c) : TagName(input[c].msg.tags[k]) = <<>>
        /\ \E k \in FieldsOf(c) : TagName(input[c].msg.tags[k]) # <<>>

\* C5: a marked zero field that no attachment overrides is never written; a
\* field that no attachment overrides and that is unmarked or not zero is
\* written once, under its wire name, by every successful build.
C5_OmitEmptyRule ==
    \A c \in Calls : Multipart(c) =>
        \A k \in FieldsOf(c) : ~Overridden(c, k) =>
            /\ MarkedAndZero(c, k) =>
                 \A m \in 1..Len(trace[c]) : trace[c][m] # Event("field", k)
            /\ (Succeeded(c) /\ ~MarkedAndZero(c, k)) =>
                 /\ Len(SelectSeq(trace[c], LAMBDA e : e = Event("field", k))) = 1
                 /\ \E m \in 1..Len(Output(c)) :
                      /\ Output(c)[m].kind = "field"
                      /\ Output(c)[m].name = StatedWireName(input[c].msg, k)

\* A successful build that dropped a marked zero field and wrote a marked
\* field that is not zero.
C5_Witness ==
    \E c \in Calls : Multipart(c) /\ Succeeded(c) /\
        /\ \E k \in FieldsOf(c) : MarkedAndZero(c, k) /\ ~Overridden(c, k)
        /\ \E k \in FieldsOf(c) :
             /\ Contains(input[c].msg.tags[k], OmitMarker)
             /\ ~IsZero(input[c].msg.elems[k])
             /\ ~Overridden(c, k)

\* C6: an attachment that cannot be opened ends the call at once: the open
\* is the last thing the call did, it has returned a nil stream with an
\* error, and its writer was never closed.
C6_OpenFailureAborts ==
    \A c \in Calls : Multipart(c) =>
        \A m \in 1..Len(trace[c]) :
            (/\ trace[c][m].ev = "open"
             /\ ~Stat(input[c].files[trace[c][m].idx].Path).exists)
            => /\ m = Len(trace[c])
               /\ Failed(c)
               /\ ret[c].stream = 0
               /\ writer[c].closed = 0
               /\ \A q \in 1..Len(trace[c]) :
                    trace[c][q].ev \in {"open", "filepart", "copy"}
                        => trace[c][q].idx <= trace[c][m].idx

\* A failed open with a form field already written and an attachment still
\* to come.
C6_Witness ==
    \E c \in Calls :
        /\ Failed(c) /\ ret[c].err.op = "open"
        /\ Len(input[c].files) = MaxFiles
        /\ trace[c][Len(trace[c])] = Event("open", 1)
        /\ Len(EventsOf(c, "field")) > 0

\* C7: a call holds at most the handle of the attachment it is working on,
\* and none between attachments or once it has returned or panicked.
C7_HandleClosedOnEveryPath ==
    \A c \in Calls :
        /\ Cardinality(HandlesOf(c)) <= 1
        /\ pc[c] \in {"opened", "created"} => HandlesOf(c) = {<<c, i[c] + 1>>}
        /\ pc[c] \notin {"opened", "created"} => HandlesOf(c) = {}

\* A call that returned the error of a failed copy of its second attachment.
C7_Witness ==
    \E c \in Calls :
        /\ Failed(c) /\ ret[c].err.op = "read"
        /\ trace[c][Len(trace[c])] = Event("filepart", MaxFiles)
        /\ HandlesOf(c) = {}

\* C8: every field written is one part; its data is the JSON encoding of the
\* value for a nested record, a mapping or a sequence, and the default
\* rendering of the value otherwise.
C8_CompositeAsJSON ==
    \A c \in Calls : Multipart(c) =>
        LET fe == EventsOf(c, "field")
            fp == PartsOf(Written(c), "field")
        IN /\ Len(fe) = Len(fp)
           /\ \A a, b \in 1..Len(fe) : a # b => fe[a].idx # fe[b].idx
           /\ \A m \in 1..Len(fe) :
                LET v == input[c].msg.elems[fe[m].idx] IN
                fp[m].data = IF v.kind \in {"struct", "map", "slice"}
                             THEN Marshal(v).js ELSE Sprint(v)

\* A successful build with a sequence written as JSON next to a string.
C8_Witness ==
    \E c \in Calls : Multipart(c) /\ Succeeded(c) /\
        /\ \E m \in 1..Len(Output(c)) :
             Output(c)[m].kind = "field" /\ Output(c)[m].data = "[1,2]"
        /\ \E m \in 1..Len(Output(c)) :
             Output(c)[m].kind = "field" /\ Output(c)[m].data = "123"

\* C9: whatever the other callers do meanwhile, a call that has returned has
\* returned what it returns when run alone with the same boundary: the same
\* error, the same content type, and a stream holding the same bytes.
C9_ConcurrentCallsIndependent ==
    \A c \in Calls : Returned(c) =>
        LET r == RunAlone(input[c], writer[c].boundary) IN
        /\ r.st # "panic"
        /\ ret[c].err = r.err
        /\ ret[c].contentType = r.contentType
        /\ (ret[c].stream # 0) = r.hasStream
        /\ r.hasStream => Output(c) = r.content

\* Every caller has returned, two of them from a successful multipart build.
C9_Witness ==
    /\ \A c \in Calls : Returned(c)
    /\ \E c, d \in Calls :
         /\ c # d
         /\ Multipart(c) /\ Succeeded(c) /\ Len(Output(c)) > 1
         /\ Multipart(d) /\ Succeeded(d) /\ Len(Output(d)) > 1

\* C10: no form field is ever written after a file part; a successful build
\* has written the form fields in declaration order, then for each attachment
\* in list order a file part with its Name, the base name of its Path and the
\* file's bytes, then the closing boundary, the writer having been closed
\* once, last of all; the content type carries the writer's boundary.
C10_WriteOrder ==
    \A c \in Calls : Multipart(c) =>
        /\ \A a, b \in 1..Len(Written(c)) :
             (Written(c)[a].kind = "file" /\ Written(c)[b].kind = "field") => b < a
        /\ Succeeded(c) =>
             LET out == Output(c)
                 fe == EventsOf(c, "field")
                 nf == Len(fe)
                 files == input[c].files
             IN /\ Len(out) = nf + Len(files) + 1
                /\ \A m \in 1..nf :
                     /\ out[m].kind = "field"
                     /\ out[m].name = StatedWireName(input[c].msg, fe[m].idx)
                     /\ m > 1 => fe[m - 1].idx < fe[m].idx
                /\ \A j \in 1..Len(files) :
                     /\ out[nf + j].kind = "file"
                     /\ out[nf + j].name = files[j].Name
                     /\ IsBaseOf(out[nf + j].filename, files[j].Path)
                     /\ out[nf + j].data = Stat(files[j].Path).data
                /\ out[Len(out)].kind = "end"
                /\ writer[c].closed = 1
                /\ ret[c].contentType =
                       "multipart/form-data; boundary=" \o writer[c].boundary
                /\ trace[c] = fe
                       \o [q \in 1..(3 * Len(files)) |->
                             Event(<<"open", "filepart", "copy">>[((q - 1) % 3) + 1],
                                   ((q - 1) \div 3) + 1)]
                       \o <<Event("finalize", 0)>>

\* A successful build of as many fields and attachments as the bounds allow.
C10_Witness ==
    \E c \in Calls :
        /\ Multipart(c) /\ Succeeded(c)
        /\ Len(EventsOf(c, "field")) = MaxFields
        /\ Len(input[c].files) = MaxFiles
        /\ MaxFields > 1 /\ MaxFiles > 1

====
